---- MODULE Spec2Model ----
(***************************************************************************)
(* Model of the batch hashing dispatchers of the hashfuncs extension       *)
(* (src/src/hashfuncs_extension.cpp): hashfunc_generic,                    *)
(* hashfunc_generic_with_seed and the two fixed-width helpers.             *)
(*                                                                         *)
(* A call works on a DataChunk (an input vector and, for the seeded        *)
(* dispatcher, a seed vector, both seen through a UnifiedVectorFormat:     *)
(* selection vector, data, validity mask) and on a result vector (vector   *)
(* type, validity mask, data).  Each call is followed statement by         *)
(* statement: entry, type switch, one step per loop iteration, tail.       *)
(***************************************************************************)
EXTENDS Integers, Sequences, FiniteSets, TLC

(***************************************************************************)
(* Bounds of the model.                                                    *)
(***************************************************************************)
\* largest row count of a chunk; vectors have MaxRows physical slots
MaxRows == 2

Slots == 0 .. (MaxRows - 1)

(***************************************************************************)
(* enum class HashAlgorithm and the seed / result types the templates are  *)
(* instantiated with.                                                      *)
(***************************************************************************)
HashAlgorithm ==
  {"XXH32", "XXH64", "XXH3_64", "XXH3_128", "RAPIDHASH",
   "MURMURHASH3_32", "MURMURHASH3_128", "MURMURHASH3_X64_128"}

\* hash_seed_type with the 32-bit specialisations missing
hash_seed_type_AllWide(alg) == 64

\* hash_seed_type<Algorithm>::type, as a width in bits
hash_seed_type(alg) ==
  CASE alg = "XXH32" -> 32
    [] alg = "XXH64" -> 64
    [] alg = "XXH3_64" -> 64
    [] alg = "XXH3_128" -> 64
    [] alg = "RAPIDHASH" -> 64
    [] alg = "MURMURHASH3_32" -> 32
    [] alg = "MURMURHASH3_128" -> 32
    [] alg = "MURMURHASH3_X64_128" -> 32

\* ResultType of the wrappers hashfunc_XXH32 .. hashfunc_MurmurHash3_X64_128,
\* as a width in bits
ResultType(alg) ==
  CASE alg = "XXH32" -> 32
    [] alg = "XXH64" -> 64
    [] alg = "XXH3_64" -> 64
    [] alg = "XXH3_128" -> 128
    [] alg = "RAPIDHASH" -> 64
    [] alg = "MURMURHASH3_32" -> 32
    [] alg = "MURMURHASH3_128" -> 128
    [] alg = "MURMURHASH3_X64_128" -> 128

(***************************************************************************)
(* Logical type ids.  The functions are registered with LogicalType::ANY,  *)
(* so a vector of any type can reach the dispatcher.                       *)
(***************************************************************************)
VarlenTypes == {"BLOB", "VARCHAR"}

FixedTypes ==
  {"HUGEINT", "UHUGEINT", "USMALLINT", "UINTEGER", "INTEGER", "BIGINT",
   "UBIGINT", "SMALLINT", "UTINYINT", "TINYINT", "FLOAT", "DOUBLE",
   "DATE", "TIME"}

\* type ids that fall to the default: label of the switch
OtherTypes == {"BOOLEAN", "TIMESTAMP"}

LogicalTypeId == VarlenTypes \cup FixedTypes \cup OtherTypes

\* the switch with DATE and TIME instantiated like their neighbours FLOAT and
\* DOUBLE swapped: DATE read as 8 bytes, TIME as 4
SizeofTargetType_DateTimeSwapped(type_id) ==
  CASE type_id \in {"HUGEINT", "UHUGEINT"} -> 16
    [] type_id \in {"USMALLINT", "SMALLINT"} -> 2
    [] type_id \in {"UINTEGER", "INTEGER", "FLOAT", "TIME"} -> 4
    [] type_id \in {"BIGINT", "UBIGINT", "DOUBLE", "DATE"} -> 8
    [] type_id \in {"UTINYINT", "TINYINT"} -> 1

\* sizeof(TargetType) of the helper instantiated by each case of the switch
SizeofTargetType(type_id) ==
  CASE type_id = "HUGEINT" -> 16
    [] type_id = "UHUGEINT" -> 16
    [] type_id = "USMALLINT" -> 2
    [] type_id = "UINTEGER" -> 4
    [] type_id = "INTEGER" -> 4
    [] type_id = "BIGINT" -> 8
    [] type_id = "UBIGINT" -> 8
    [] type_id = "SMALLINT" -> 2
    [] type_id = "UTINYINT" -> 1
    [] type_id = "TINYINT" -> 1
    [] type_id = "FLOAT" -> 4
    [] type_id = "DOUBLE" -> 8
    [] type_id = "DATE" -> 4
    [] type_id = "TIME" -> 8

\* the width in bytes of the storage of a value of each type (the physical
\* type of the logical type in the host)
TypeWidth(type_id) ==
  CASE type_id \in {"TINYINT", "UTINYINT", "BOOLEAN"} -> 1
    [] type_id \in {"SMALLINT", "USMALLINT"} -> 2
    [] type_id \in {"INTEGER", "UINTEGER", "FLOAT", "DATE"} -> 4
    [] type_id \in {"BIGINT", "UBIGINT", "DOUBLE", "TIME", "TIMESTAMP"} -> 8
    [] type_id \in {"HUGEINT", "UHUGEINT"} -> 16

\* LoadInternal: the seed type of the two-argument ScalarFunction of each
\* function set
RegisteredSeedType(alg) ==
  CASE alg = "XXH32" -> "UINTEGER"
    [] alg = "XXH64" -> "UBIGINT"
    [] alg = "XXH3_64" -> "UBIGINT"
    [] alg = "XXH3_128" -> "UBIGINT"
    [] alg = "RAPIDHASH" -> "UBIGINT"
    [] alg = "MURMURHASH3_32" -> "UINTEGER"
    [] alg = "MURMURHASH3_128" -> "UINTEGER"
    [] alg = "MURMURHASH3_X64_128" -> "UINTEGER"

\* LoadInternal: the return type of the ScalarFunctions of each function set
RegisteredReturnType(alg) ==
  CASE alg = "XXH32" -> "UINTEGER"
    [] alg = "XXH64" -> "UBIGINT"
    [] alg = "XXH3_64" -> "UBIGINT"
    [] alg = "XXH3_128" -> "UHUGEINT"
    [] alg = "RAPIDHASH" -> "UBIGINT"
    [] alg = "MURMURHASH3_32" -> "UINTEGER"
    [] alg = "MURMURHASH3_128" -> "UHUGEINT"
    [] alg = "MURMURHASH3_X64_128" -> "UHUGEINT"

(***************************************************************************)
(* Values stored in a vector.  A physical slot holds one of two values;    *)
(* PhysicalBytes is its in-memory representation: little-endian 1 or 2 in  *)
(* the width of the type for the fixed-width types, and the payload "" or  *)
(* "a" for the variable-length ones.  The data of a fixed-width vector is  *)
(* the buffer of the representations of its slots, one after the other.    *)
(***************************************************************************)
Vals == {0, 1}

RECURSIVE Zeros(_)
Zeros(k) == IF k = 0 THEN <<>> ELSE <<0>> \o Zeros(k - 1)

PhysicalBytes(type_id, v) ==
  IF type_id \in VarlenTypes
    THEN (IF v = 0 THEN <<>> ELSE <<97>>)
    ELSE <<v + 1>> \o Zeros(TypeWidth(type_id) - 1)

RECURSIVE BufferFrom(_, _, _)
BufferFrom(type_id, data, k) ==
  IF k \notin DOMAIN data THEN <<>>
  ELSE PhysicalBytes(type_id, data[k]) \o BufferFrom(type_id, data, k + 1)

\* &inputs[input_idx], sizeof(TargetType): the byte view of a fixed-width
\* slot, inputs being the buffer of the vector seen as an array of TargetType
\* (238 stands for a byte found past the end of the buffer)
FixedView(type_id, data, input_idx) ==
  LET buffer == BufferFrom(type_id, data, 0)
      size == SizeofTargetType(type_id)
  IN  [j \in 1 .. size |->
         IF input_idx * size + j <= Len(buffer)
           THEN buffer[input_idx * size + j]
           ELSE 238]

\* str.GetData(), str.GetSize(): the byte view of a string_t
StringView(type_id, v) == PhysicalBytes(type_id, v)

\* seed values a seed column holds
SeedVals == {0, 42}

(***************************************************************************)
(* The hash primitives of xxhash.h, rapidhash.h and MurmurHash3.h.  They   *)
(* are opaque: a digest is the term naming the primitive and its           *)
(* arguments, so two digests are equal exactly when the same primitive was *)
(* applied to the same bytes and the same seed.                            *)
(***************************************************************************)
Digest(fn, bytes, seed) == [fn |-> fn, bytes |-> bytes, seed |-> seed]

XXH32(bytes, seed) == Digest("XXH32", bytes, seed)
XXH64(bytes, seed) == Digest("XXH64", bytes, seed)
XXH3_64bits_withSeed(bytes, seed) == Digest("XXH3_64", bytes, seed)
XXH3_64bits(bytes) == XXH3_64bits_withSeed(bytes, 0)
rapidhash_withSeed(bytes, seed) == Digest("rapidhash", bytes, seed)
rapidhash(bytes) == rapidhash_withSeed(bytes, 0)
MurmurHash3_x86_32(bytes, seed) == Digest("MurmurHash3_x86_32", bytes, seed)
MurmurHash3_x86_128(bytes, seed) == Digest("MurmurHash3_x86_128", bytes, seed)
MurmurHash3_x64_128(bytes, seed) == Digest("MurmurHash3_x64_128", bytes, seed)
XXH3_128bits_withSeed(bytes, seed) ==
  [low64 |-> Digest("XXH3_128.low64", bytes, seed),
   high64 |-> Digest("XXH3_128.high64", bytes, seed)]
XXH3_128bits(bytes) == XXH3_128bits_withSeed(bytes, 0)

\* uhugeint_t {hash128.low64, hash128.high64}
uhugeint_t(lower, upper) == [fn |-> "uhugeint_t", bytes |-> <<lower, upper>>, seed |-> 0]

\* what a result slot holds before the call writes it: whatever the buffer
\* held before (one of two stale words)
Stale(g) == Digest("stale", <<>>, g)
StaleWords == {0, 1}


(***************************************************************************)
(* Vectors.  A vector has a vector type, per-slot data and a validity      *)
(* mask over its physical slots; a dictionary vector also has a selection  *)
(* vector.  ToUnifiedFormat gives the view the dispatchers work on.        *)
(***************************************************************************)
AllValid == [k \in Slots |-> TRUE]

IncrementalSelectionVector == [i \in Slots |-> i]
ZeroSelectionVector == [i \in Slots |-> 0]

\* selection vectors of the dictionary vectors of the model: the slots in
\* reverse order, and every row on the last slot
ReverseSel == [i \in Slots |-> MaxRows - 1 - i]
LastSel == [i \in Slots |-> MaxRows - 1]
DictionarySels == {ReverseSel, LastSel}

\* input_vector.ToUnifiedFormat(row_count, vdata)
ToUnifiedFormat(vector) ==
  [sel |-> CASE vector.vector_type = "FLAT_VECTOR" -> IncrementalSelectionVector
             [] vector.vector_type = "CONSTANT_VECTOR" -> ZeroSelectionVector
             [] vector.vector_type = "DICTIONARY_VECTOR" -> vector.sel,
   data |-> vector.data,
   validity |-> vector.validity]

\* validity.RowIsValid(idx) on the mask of a UnifiedVectorFormat
RowIsValid(validity, idx) == validity[idx]

(***************************************************************************)
(* The validity mask of the result vector, and the local variable          *)
(*   auto result_validity = FlatVector::Validity(result);                  *)
(* FlatVector::Validity returns a ValidityMask&, and auto drops the        *)
(* reference: result_validity is a copy of the mask object.  The copy      *)
(* shares the buffer the mask had at that time; a mask without a buffer    *)
(* (all rows valid) gives a copy without a buffer, and the first           *)
(* SetInvalid on the copy allocates a buffer only the copy points to.      *)
(***************************************************************************)
\* the copy made by the declaration of result_validity
CopyValidityMask(mask) ==
  [buffer |-> IF mask.allocated THEN "result" ELSE "null", bits |-> AllValid]

\* result_validity.SetInvalid(i), on the pair (mask of the result, copy)
SetInvalid(mask, copy, i) ==
  CASE copy.buffer = "result" ->
         [mask |-> [mask EXCEPT !.bits[i] = FALSE], copy |-> copy]
    [] copy.buffer = "null" ->
         [mask |-> mask,
          copy |-> [buffer |-> "own", bits |-> [AllValid EXCEPT ![i] = FALSE]]]
    [] copy.buffer = "own" ->
         [mask |-> mask, copy |-> [copy EXCEPT !.bits[i] = FALSE]]

\* the validity of row i the caller reads from the result vector
ResultRowIsValid(res, i) ==
  IF res.validity.allocated THEN res.validity.bits[i] ELSE TRUE

(***************************************************************************)
(* Events of a call, in program order (a record of what the code did).     *)
(***************************************************************************)
Ev(op, vec, row, at) ==
  [op |-> op, vec |-> vec, row |-> row, at |-> at, bytes |-> <<>>, seed |-> 0]

HashEv(alg, row, bytes, seed, seeded) ==
  [op |-> "hash", vec |-> IF seeded THEN "seed" ELSE "noseed", row |-> row,
   at |-> row, bytes |-> bytes, seed |-> seed]

(***************************************************************************)
(* The if constexpr chains: the primitive each algorithm calls.            *)
(***************************************************************************)
\* chain of hash_fixed_type_generic and of the VARCHAR case of
\* hashfunc_generic
HashNoSeed(alg, bytes) ==
  CASE alg = "XXH32" -> XXH32(bytes, 0)
    [] alg = "XXH64" -> XXH64(bytes, 0)
    [] alg = "XXH3_64" -> XXH3_64bits(bytes)
    [] alg = "RAPIDHASH" -> rapidhash(bytes)
    [] alg = "MURMURHASH3_32" -> MurmurHash3_x86_32(bytes, 0)
    [] alg = "MURMURHASH3_128" -> MurmurHash3_x86_128(bytes, 0)
    [] alg = "MURMURHASH3_X64_128" -> MurmurHash3_x64_128(bytes, 0)
    [] alg = "XXH3_128" ->
         LET hash128 == XXH3_128bits(bytes)
         IN  uhugeint_t(hash128.low64, hash128.high64)

\* chain of hash_fixed_type_generic_with_seed and of the VARCHAR case of
\* hashfunc_generic_with_seed
HashWithSeed(alg, bytes, seed_value) ==
  CASE alg = "XXH32" -> XXH32(bytes, seed_value)
    [] alg = "XXH64" -> XXH64(bytes, seed_value)
    [] alg = "XXH3_64" -> XXH3_64bits_withSeed(bytes, seed_value)
    [] alg = "RAPIDHASH" -> rapidhash_withSeed(bytes, seed_value)
    [] alg = "MURMURHASH3_32" -> MurmurHash3_x86_32(bytes, seed_value)
    [] alg = "MURMURHASH3_128" -> MurmurHash3_x86_128(bytes, seed_value)
    [] alg = "MURMURHASH3_X64_128" -> MurmurHash3_x64_128(bytes, seed_value)
    [] alg = "XXH3_128" ->
         LET hash128 == XXH3_128bits_withSeed(bytes, seed_value)
         IN  uhugeint_t(hash128.low64, hash128.high64)


(***************************************************************************)
(* State.  Every variable is a function of the call (one invocation of a   *)
(* dispatcher by the host).                                                *)
(*   args    the DataChunk and the template instance: row_count,           *)
(*           input_vector (type_id and vector), seed_vector, Algorithm and *)
(*           which of the two dispatchers is called                        *)
(*   result  the result vector: vector_type, validity mask, data           *)
(*   frame   the locals of the call: pc, loop index i, vdata / input_vdata *)
(*           and seed_vdata, result_validity, and the exception thrown     *)
(*   trace   the events of the call so far                                 *)
(***************************************************************************)
VARIABLES args, result, frame, trace

vars == <<args, result, frame, trace>>

Calls == DOMAIN args

\* the state of one call as a record, and the steps as functions on it
CallState(p) ==
  [args |-> args[p], result |-> result[p], frame |-> frame[p], trace |-> trace[p]]

NoVdata == [sel |-> ZeroSelectionVector, data |-> [k \in Slots |-> 0], validity |-> AllValid]

\* EarlyReturn without result.SetVectorType(VectorType::CONSTANT_VECTOR)
EarlyReturn_KeepsVectorType(c) ==
  [c EXCEPT !.frame.pc = "done"]

\* lines 198-202 / 341-345: early return for empty chunks
EarlyReturn(c) ==
  [c EXCEPT !.result.vector_type = "CONSTANT_VECTOR",
            !.frame.pc = "done"]

\* lines 204-211: unified format of the input, result made flat, local copy
\* of its validity mask, type id read
hashfunc_generic_setup(c) ==
  [c EXCEPT !.frame.vdata = ToUnifiedFormat(c.args.input_vector),
            !.result.vector_type = "FLAT_VECTOR",
            !.frame.result_validity = CopyValidityMask(c.result.validity),
            !.frame.pc = "switch",
            !.frame.i = 0]

\* lines 347-357: the same with the unified format of the seed vector
hashfunc_generic_with_seed_setup(c) ==
  [c EXCEPT !.frame.vdata = ToUnifiedFormat(c.args.input_vector),
            !.frame.seed_vdata = ToUnifiedFormat(c.args.seed_vector),
            !.result.vector_type = "FLAT_VECTOR",
            !.frame.result_validity = CopyValidityMask(c.result.validity),
            !.frame.pc = "switch",
            !.frame.i = 0]

\* result_validity.SetInvalid(i); continue;
MarkInvalid(c, checks) ==
  LET i == c.frame.i
      r == SetInvalid(c.result.validity, c.frame.result_validity, i)
  IN  [c EXCEPT !.result.validity = r.mask,
                !.frame.result_validity = r.copy,
                !.frame.i = i + 1,
                !.trace = c.trace \o checks \o <<Ev("SetInvalid", "result", i, i)>>]

\* results[i] = digest; end of the loop body
Store(c, checks, digest) ==
  LET i == c.frame.i
  IN  [c EXCEPT !.result.data[i] = digest,
                !.frame.i = i + 1,
                !.trace = c.trace \o checks \o <<Ev("store", "result", i, i)>>]

\* lines 150-189: one iteration of the loop of hash_fixed_type_generic
hash_fixed_type_generic(c) ==
  LET i == c.frame.i
      vdata == c.frame.vdata
      inputs == c.args.input_vector.data
      check == <<Ev("RowIsValid", "input", i, i)>>
  IN  IF ~RowIsValid(vdata.validity, i)
        THEN MarkInvalid(c, check)
        ELSE LET input_idx == vdata.sel[i]
                 bytes == FixedView(c.args.type_id, inputs, input_idx)
             IN  Store(c, check \o <<Ev("read", "input", i, input_idx),
                                     HashEv(c.args.Algorithm, i, bytes, 0, FALSE)>>,
                       HashNoSeed(c.args.Algorithm, bytes))

\* lines 217-252: one iteration of the VARCHAR / BLOB loop of hashfunc_generic
hashfunc_generic_varchar(c) ==
  LET i == c.frame.i
      vdata == c.frame.vdata
      inputs == c.args.input_vector.data
      check == <<Ev("RowIsValid", "input", i, i)>>
  IN  IF ~RowIsValid(vdata.validity, i)
        THEN MarkInvalid(c, check)
        ELSE LET input_idx == vdata.sel[i]
                 bytes == StringView(c.args.type_id, inputs[input_idx])
             IN  Store(c, check \o <<Ev("read", "input", i, input_idx),
                                     HashEv(c.args.Algorithm, i, bytes, 0, FALSE)>>,
                       HashNoSeed(c.args.Algorithm, bytes))

\* the condition of lines 101 and 366 with its short circuit: the events of
\* the evaluation and its value
SeededRowCheck(c) ==
  LET i == c.frame.i
      in_ok == RowIsValid(c.frame.vdata.validity, i)
  IN  [events |-> IF in_ok
                    THEN <<Ev("RowIsValid", "input", i, i), Ev("RowIsValid", "seed", i, i)>>
                    ELSE <<Ev("RowIsValid", "input", i, i)>>,
       invalid |-> ~in_ok \/ ~RowIsValid(c.frame.seed_vdata.validity, i)]

\* lines 100-141: one iteration of the loop of
\* hash_fixed_type_generic_with_seed
hash_fixed_type_generic_with_seed(c) ==
  LET i == c.frame.i
      inputs == c.args.input_vector.data
      seeds == c.args.seed_vector.data
      chk == SeededRowCheck(c)
  IN  IF chk.invalid
        THEN MarkInvalid(c, chk.events)
        ELSE LET input_idx == c.frame.vdata.sel[i]
                 seed_idx == c.frame.seed_vdata.sel[i]
                 seed_value == seeds[seed_idx]
                 bytes == FixedView(c.args.type_id, inputs, input_idx)
             IN  Store(c, chk.events \o <<Ev("read", "input", i, input_idx),
                                          Ev("read", "seed", i, seed_idx),
                                          HashEv(c.args.Algorithm, i, bytes, seed_value, TRUE)>>,
                       HashWithSeed(c.args.Algorithm, bytes, seed_value))

\* lines 365-402: one iteration of the VARCHAR / BLOB loop of
\* hashfunc_generic_with_seed
hashfunc_generic_with_seed_varchar(c) ==
  LET i == c.frame.i
      inputs == c.args.input_vector.data
      seeds == c.args.seed_vector.data
      chk == SeededRowCheck(c)
  IN  IF chk.invalid
        THEN MarkInvalid(c, chk.events)
        ELSE LET input_idx == c.frame.vdata.sel[i]
                 seed_idx == c.frame.seed_vdata.sel[i]
                 seed_value == seeds[seed_idx]
                 bytes == StringView(c.args.type_id, inputs[input_idx])
             IN  Store(c, chk.events \o <<Ev("read", "input", i, input_idx),
                                          Ev("read", "seed", i, seed_idx),
                                          HashEv(c.args.Algorithm, i, bytes, seed_value, TRUE)>>,
                       HashWithSeed(c.args.Algorithm, bytes, seed_value))

\* the default: label leaving the switch with break instead of throwing
ThrowUnsupported_Break(c) ==
  [c EXCEPT !.frame.pc = "done"]

\* lines 325-327 / 476-478: default: throw NotImplementedException
ThrowUnsupported(c) ==
  [c EXCEPT !.frame.pc = "thrown",
            !.frame.exception = "NotImplementedException"]

\* the tail collapsing every result, whatever the row count
SingleRowTail_AlwaysCollapse(c) ==
  [c EXCEPT !.result.vector_type = "CONSTANT_VECTOR",
            !.frame.pc = "done"]

\* lines 329-333 / 480-484: collapse single-row results, return
SingleRowTail(c) ==
  [c EXCEPT !.result.vector_type =
               IF c.args.row_count = 1 THEN "CONSTANT_VECTOR" ELSE @,
            !.frame.pc = "done"]


(***************************************************************************)
(* Initial states: the chunks and result vectors the host can pass.        *)
(***************************************************************************)
ValidityMasks == [Slots -> BOOLEAN]

\* a constant vector has one value: only bit 0 of its mask is ever cleared
ConstantMasks == {m \in ValidityMasks : \A k \in Slots : k # 0 => m[k]}

DataPatterns == {[k \in Slots |-> k % 2], [k \in Slots |-> (k + 1) % 2]}

SeedPatterns == {[k \in Slots |-> 0], [k \in Slots |-> IF k % 2 = 0 THEN 42 ELSE 0]}

VectorsOver(patterns) ==
  [vector_type : {"FLAT_VECTOR"}, sel : {IncrementalSelectionVector},
   data : patterns, validity : ValidityMasks]
  \cup
  [vector_type : {"CONSTANT_VECTOR"}, sel : {ZeroSelectionVector},
   data : patterns, validity : ConstantMasks]
  \cup
  [vector_type : {"DICTIONARY_VECTOR"}, sel : DictionarySels,
   data : patterns, validity : ValidityMasks]

InputVectors == VectorsOver(DataPatterns)
SeedVectors == VectorsOver(SeedPatterns)

\* args.data[1] of a one-argument call: there is none
NoVector ==
  [vector_type |-> "FLAT_VECTOR", sel |-> IncrementalSelectionVector,
   data |-> [k \in Slots |-> 0], validity |-> AllValid]

ArgsOver(algs, type_ids) ==
  [seeded : {FALSE}, Algorithm : algs, type_id : type_ids,
   row_count : 0 .. MaxRows, input_vector : InputVectors, seed_vector : {NoVector}]
  \cup
  [seeded : {TRUE}, Algorithm : algs, type_id : type_ids,
   row_count : 0 .. MaxRows, input_vector : InputVectors, seed_vector : SeedVectors]

\* the result vector the host hands in: flat, all rows valid, with or without
\* an allocated validity buffer, data not initialised
ResultVectors ==
  [vector_type : {"FLAT_VECTOR"},
   validity : [allocated : BOOLEAN, bits : {AllValid}],
   data : {[k \in Slots |-> Stale(g)] : g \in StaleWords}]

FrameAtEntry ==
  [pc |-> "start", i |-> 0, vdata |-> NoVdata, seed_vdata |-> NoVdata,
   result_validity |-> [buffer |-> "null", bits |-> AllValid],
   exception |-> "none"]

InitOver(calls, algs, type_ids) ==
  /\ args \in [calls -> ArgsOver(algs, type_ids)]
  /\ result \in [calls -> ResultVectors]
  /\ frame = [p \in calls |-> FrameAtEntry]
  /\ trace = [p \in calls |-> <<>>]

\* type ids of the calls of Spec: one per arm of the switch
SpecTypeIds == {"VARCHAR", "INTEGER", "BOOLEAN"}

Init == InitOver({1}, HashAlgorithm, SpecTypeIds)

(***************************************************************************)
(* Actions: one per step of each dispatcher.                               *)
(***************************************************************************)
\* Becomes with the result vector a single object shared by the calls
Becomes_Shared(p, d) ==
  /\ result' = [q \in Calls |-> d.result]
  /\ frame' = [frame EXCEPT ![p] = d.frame]
  /\ trace' = [trace EXCEPT ![p] = d.trace]
  /\ UNCHANGED args

\* one step of call p: its result vector, locals and events become those of
\* d; the arguments are only read, and no other call is touched
Becomes(p, d) ==
  /\ result' = [result EXCEPT ![p] = d.result]
  /\ frame' = [frame EXCEPT ![p] = d.frame]
  /\ trace' = [trace EXCEPT ![p] = d.trace]
  /\ UNCHANGED args

At(p, seeded, pc) == args[p].seeded = seeded /\ frame[p].pc = pc

InLoop(p, seeded, type_ids) ==
  /\ At(p, seeded, "switch")
  /\ args[p].type_id \in type_ids
  /\ frame[p].i < args[p].row_count

LoopDone(p, seeded) ==
  /\ At(p, seeded, "switch")
  /\ args[p].type_id \in VarlenTypes \cup FixedTypes
  /\ frame[p].i = args[p].row_count

\* hashfunc_generic
Empty(p) ==
  /\ At(p, FALSE, "start") /\ args[p].row_count = 0
  /\ Becomes(p, EarlyReturn(CallState(p)))

Begin(p) ==
  /\ At(p, FALSE, "start") /\ args[p].row_count # 0
  /\ Becomes(p, hashfunc_generic_setup(CallState(p)))

RowVarchar(p) ==
  /\ InLoop(p, FALSE, VarlenTypes)
  /\ Becomes(p, hashfunc_generic_varchar(CallState(p)))

RowFixed(p) ==
  /\ InLoop(p, FALSE, FixedTypes)
  /\ Becomes(p, hash_fixed_type_generic(CallState(p)))

Unsupported(p) ==
  /\ At(p, FALSE, "switch") /\ args[p].type_id \notin VarlenTypes \cup FixedTypes
  /\ Becomes(p, ThrowUnsupported(CallState(p)))

Return(p) ==
  /\ LoopDone(p, FALSE)
  /\ Becomes(p, SingleRowTail(CallState(p)))

\* hashfunc_generic_with_seed
EmptyWithSeed(p) ==
  /\ At(p, TRUE, "start") /\ args[p].row_count = 0
  /\ Becomes(p, EarlyReturn(CallState(p)))

BeginWithSeed(p) ==
  /\ At(p, TRUE, "start") /\ args[p].row_count # 0
  /\ Becomes(p, hashfunc_generic_with_seed_setup(CallState(p)))

RowVarcharWithSeed(p) ==
  /\ InLoop(p, TRUE, VarlenTypes)
  /\ Becomes(p, hashfunc_generic_with_seed_varchar(CallState(p)))

RowFixedWithSeed(p) ==
  /\ InLoop(p, TRUE, FixedTypes)
  /\ Becomes(p, hash_fixed_type_generic_with_seed(CallState(p)))

UnsupportedWithSeed(p) ==
  /\ At(p, TRUE, "switch") /\ args[p].type_id \notin VarlenTypes \cup FixedTypes
  /\ Becomes(p, ThrowUnsupported(CallState(p)))

ReturnWithSeed(p) ==
  /\ LoopDone(p, TRUE)
  /\ Becomes(p, SingleRowTail(CallState(p)))

Next ==
  \E p \in Calls :
    \/ Empty(p)
    \/ Begin(p)
    \/ RowVarchar(p)
    \/ RowFixed(p)
    \/ Unsupported(p)
    \/ Return(p)
    \/ EmptyWithSeed(p)
    \/ BeginWithSeed(p)
    \/ RowVarcharWithSeed(p)
    \/ RowFixedWithSeed(p)
    \/ UnsupportedWithSeed(p)
    \/ ReturnWithSeed(p)

Spec == Init /\ [][Next]_vars

TypeOK ==
  \A p \in Calls :
    /\ frame[p].pc \in {"start", "switch", "thrown", "done"}
    /\ frame[p].i \in 0 .. args[p].row_count


(***************************************************************************)
(* A whole call as a function of its entry state: the steps above applied  *)
(* in program order until the call returns or throws.                      *)
(***************************************************************************)
StepOf(c) ==
  IF c.frame.pc = "start"
    THEN IF c.args.row_count = 0 THEN EarlyReturn(c)
         ELSE IF c.args.seeded THEN hashfunc_generic_with_seed_setup(c)
         ELSE hashfunc_generic_setup(c)
    ELSE IF c.args.type_id \notin VarlenTypes \cup FixedTypes THEN ThrowUnsupported(c)
    ELSE IF c.frame.i = c.args.row_count THEN SingleRowTail(c)
    ELSE IF c.args.type_id \in VarlenTypes
      THEN (IF c.args.seeded THEN hashfunc_generic_with_seed_varchar(c)
            ELSE hashfunc_generic_varchar(c))
      ELSE (IF c.args.seeded THEN hash_fixed_type_generic_with_seed(c)
            ELSE hash_fixed_type_generic(c))

RECURSIVE RunCall(_)
RunCall(c) == IF c.frame.pc \in {"done", "thrown"} THEN c ELSE RunCall(StepOf(c))

EntryState(a, r) == [args |-> a, result |-> r, frame |-> FrameAtEntry, trace |-> <<>>]

(***************************************************************************)
(* What the chunk means and what the caller sees.                          *)
(***************************************************************************)
Rows(a) == 0 .. (a.row_count - 1)

\* the physical slot of logical row i of a vector
SlotOf(vector, i) == ToUnifiedFormat(vector).sel[i]

\* logical row i of the vector is not null
LogicalValid(vector, i) == vector.validity[SlotOf(vector, i)]

\* the value of logical row i of the vector
LogicalValue(vector, i) == vector.data[SlotOf(vector, i)]

\* the row has an input value and, in a seeded call, a seed
RowHashable(a, i) ==
  LogicalValid(a.input_vector, i) /\ (a.seeded => LogicalValid(a.seed_vector, i))

\* the bytes of logical row i of the input
LogicalBytes(a, i) ==
  IF a.type_id \in VarlenTypes
    THEN StringView(a.type_id, LogicalValue(a.input_vector, i))
    ELSE PhysicalBytes(a.type_id, LogicalValue(a.input_vector, i))

\* the digest the selected primitive gives for logical row i
RowDigest(a, i) ==
  IF a.seeded
    THEN HashWithSeed(a.Algorithm, LogicalBytes(a, i), LogicalValue(a.seed_vector, i))
    ELSE HashNoSeed(a.Algorithm, LogicalBytes(a, i))

NullRow == [valid |-> FALSE, digest |-> Digest("NULL", <<>>, 0)]

\* row i of the result as the caller reads it: a constant vector repeats row 0
OutputRow(res, i) ==
  LET k == IF res.vector_type = "CONSTANT_VECTOR" THEN 0 ELSE i
  IN  IF ResultRowIsValid(res, k)
        THEN [valid |-> TRUE, digest |-> res.data[k]]
        ELSE NullRow

\* the output batch of a finished call
Output(c) ==
  [status |-> c.frame.pc,
   vector_type |-> c.result.vector_type,
   rows |-> [i \in Rows(c.args) |-> OutputRow(c.result, i)]]

Finished(p) == frame[p].pc = "done"

EventsOf(p, ops) == {k \in DOMAIN trace[p] : trace[p][k].op \in ops}


(***************************************************************************)
(* Claims.                                                                 *)
(***************************************************************************)

\* C1 - Null propagation: when a call on n >= 1 rows has returned, every
\* logical row whose input value is null is an invalid row of the output.
C1_NullPropagation ==
  \A p \in Calls :
    Finished(p) =>
      \A i \in Rows(args[p]) :
        ~LogicalValid(args[p].input_vector, i) => ~OutputRow(result[p], i).valid

\* C2 - Seed-invalid propagation: when a seeded call has returned, every
\* logical row whose seed is null is an invalid row of the output, also when
\* the input of the row is valid.
C2_SeedInvalidPropagation ==
  \A p \in Calls :
    (Finished(p) /\ args[p].seeded) =>
      \A i \in Rows(args[p]) :
        ~LogicalValid(args[p].seed_vector, i) => ~OutputRow(result[p], i).valid

\* C3 - Input indirection: every validity bit the dispatcher consults and
\* every slot whose bytes it hashes for logical row i of the input is the
\* physical slot the selection vector gives for i.
C3_InputIndirection ==
  \A p \in Calls :
    \A k \in EventsOf(p, {"RowIsValid", "read"}) :
      trace[p][k].vec = "input" =>
        trace[p][k].at = SlotOf(args[p].input_vector, trace[p][k].row)

\* C4 - Seed indirection: every seed validity bit the dispatcher consults and
\* every seed value it passes to the primitive for logical row i is that of
\* the physical slot the selection vector of the seed column gives for i.
C4_SeedIndirection ==
  \A p \in Calls :
    \A k \in EventsOf(p, {"RowIsValid", "read"}) :
      trace[p][k].vec = "seed" =>
        trace[p][k].at = SlotOf(args[p].seed_vector, trace[p][k].row)

\* C5 - Per-row result: when a call has returned, every logical row with a
\* valid input (and a valid seed in a seeded call) is a valid row of the
\* output, at the same position, whose digest is the selected primitive
\* applied to the bytes and the seed of that row.
C5_PerRowResult ==
  \A p \in Calls :
    Finished(p) =>
      \A i \in Rows(args[p]) :
        RowHashable(args[p], i) =>
          OutputRow(result[p], i) = [valid |-> TRUE, digest |-> RowDigest(args[p], i)]


\* the result vectors a call can have been entered with, given its state now
EntriesOf(p) ==
  {r \in ResultVectors :
     LET c == RunCall(EntryState(args[p], r))
     IN  c.result = result[p] /\ c.frame = frame[p]}

\* C6 - Cardinality invariance: the output row of a one-row call (collapsed
\* to a constant vector) has the same validity and digest as the output row
\* j of a call on more rows of the same vectors, entered with the same
\* result vector, where row j is the same physical slot of the input (and
\* of the seed) as row 0.
C6_CardinalityInvariance ==
  \A p \in Calls :
    (Finished(p) /\ args[p].row_count = 1) =>
      \A r \in EntriesOf(p) :
        \A n \in 2 .. MaxRows :
          \A j \in 0 .. (n - 1) :
            LET a == args[p]
                larger == RunCall(EntryState([a EXCEPT !.row_count = n], r))
            IN  (/\ SlotOf(a.input_vector, j) = SlotOf(a.input_vector, 0)
                 /\ a.seeded => SlotOf(a.seed_vector, j) = SlotOf(a.seed_vector, 0))
                => OutputRow(larger.result, j) = OutputRow(result[p], 0)


\* both vectors hold the same logical rows 0 .. n-1: same nulls, same values
SameLogicalRows(v, w, n) ==
  \A i \in 0 .. (n - 1) :
    /\ LogicalValid(v, i) = LogicalValid(w, i)
    /\ LogicalValid(v, i) => LogicalValue(v, i) = LogicalValue(w, i)

\* the chunks that hold the same logical rows as the chunk of call p (for an
\* empty chunk: the chunk itself)
SameBatches(p) ==
  LET a == args[p]
  IN  IF a.row_count = 0 THEN {a}
      ELSE {[a EXCEPT !.input_vector = v, !.seed_vector = s] :
              v \in {w \in InputVectors : SameLogicalRows(w, a.input_vector, a.row_count)},
              s \in IF a.seeded
                      THEN {w \in SeedVectors : SameLogicalRows(w, a.seed_vector, a.row_count)}
                      ELSE {NoVector}}

\* C9 - Determinism: the output batch of a call that has returned (digests,
\* validity, representation) is the output batch of every call of the same
\* dispatcher on a chunk with the same logical row values, validity and
\* seeds, whatever the result vector held before.
C9_Determinism ==
  \A p \in Calls :
    Finished(p) =>
      \A b \in SameBatches(p) :
        \A r \in ResultVectors :
          Output(RunCall(EntryState(b, r))) = Output(CallState(p))

\* the seed columns whose logical rows 0 .. n-1 are all valid and all 0
ZeroSeedVectors(n) ==
  {s \in SeedVectors :
     \A i \in 0 .. (n - 1) : LogicalValid(s, i) /\ LogicalValue(s, i) = 0}

\* C10 - NoSeed equals seed zero: the rows of the output of a call of
\* hashfunc_generic are, row for row (validity and digest), the rows of the
\* output of hashfunc_generic_with_seed on the same input with a seed column
\* whose rows are all valid and 0, entered with the same result vector.
C10_NoSeedEqualsSeedZero ==
  \A p \in Calls :
    (Finished(p) /\ ~args[p].seeded) =>
      \A r \in EntriesOf(p) :
        \A s \in ZeroSeedVectors(args[p].row_count) :
          LET withSeed == [args[p] EXCEPT !.seeded = TRUE, !.seed_vector = s]
          IN  Output(RunCall(EntryState(withSeed, r))).rows = Output(CallState(p)).rows

\* no row of call p has been processed: nothing hashed, nothing stored, no
\* row marked invalid, the result data and validity as on entry
Untouched(p) ==
  /\ EventsOf(p, {"hash", "store", "SetInvalid", "read", "RowIsValid"}) = {}
  /\ \A k \in Slots : result[p].data[k].fn = "stale"
  /\ result[p].validity.bits = AllValid

Returned(p) == frame[p].pc \in {"done", "thrown"}

\* C7 - Empty-batch law: a call of either dispatcher on zero rows, whatever
\* the type id of the input, returns without an exception, with the result
\* a constant vector of zero rows, and without calling a hash primitive.
C7_EmptyBatch ==
  \A p \in Calls :
    (args[p].row_count = 0 /\ frame[p].pc # "start") =>
      /\ frame[p].pc = "done"
      /\ frame[p].exception = "none"
      /\ result[p].vector_type = "CONSTANT_VECTOR"
      /\ DOMAIN Output(CallState(p)).rows = {}
      /\ EventsOf(p, {"hash"}) = {}

\* witness of C7: a seeded call on zero rows of an unsupported type returned
C7_Witness ==
  \E p \in Calls :
    /\ args[p].row_count = 0 /\ args[p].seeded
    /\ args[p].type_id \in OtherTypes
    /\ frame[p].pc = "done"

\* C8 as stated - UnsupportedType: every call on a chunk whose type id is
\* outside the supported set ends with the exception, no row processed.
C8_UnsupportedType ==
  \A p \in Calls :
    (args[p].type_id \in OtherTypes /\ Returned(p)) =>
      /\ frame[p].pc = "thrown"
      /\ frame[p].exception = "NotImplementedException"
      /\ Untouched(p)

\* C8 amended - every call of either dispatcher on a chunk of at least one
\* row whose type id is outside the supported set ends with the exception,
\* before any row is processed: no primitive called, no digest written, no
\* row marked invalid.
C8_UnsupportedTypeNonEmpty ==
  \A p \in Calls :
    (args[p].type_id \in OtherTypes /\ args[p].row_count >= 1 /\ frame[p].pc # "start") =>
      /\ frame[p].pc \in {"switch", "thrown"}
      /\ frame[p].pc = "thrown" => frame[p].exception = "NotImplementedException"
      /\ frame[p].i = 0
      /\ Untouched(p)

\* witness of C8: a call on MaxRows rows of an unsupported type has thrown
C8_Witness ==
  \E p \in Calls :
    /\ args[p].type_id \in OtherTypes
    /\ args[p].row_count = MaxRows
    /\ frame[p].pc = "thrown"


\* the algorithm table: digest width and seed width in bits
AlgorithmTable(alg) ==
  CASE alg = "XXH32" -> [digest |-> 32, seed |-> 32]
    [] alg = "XXH64" -> [digest |-> 64, seed |-> 64]
    [] alg = "XXH3_64" -> [digest |-> 64, seed |-> 64]
    [] alg = "XXH3_128" -> [digest |-> 128, seed |-> 64]
    [] alg = "RAPIDHASH" -> [digest |-> 64, seed |-> 64]
    [] alg = "MURMURHASH3_32" -> [digest |-> 32, seed |-> 32]
    [] alg = "MURMURHASH3_128" -> [digest |-> 128, seed |-> 32]
    [] alg = "MURMURHASH3_X64_128" -> [digest |-> 128, seed |-> 32]

\* C11 - Width table: for the algorithm of every call, the result type and
\* the seed type the templates are instantiated with have the widths of the
\* algorithm table, the seed type read from the seed column is as wide as
\* the seed type of the registered two-argument signature, and the result
\* type is as wide as the registered return type.
C11_WidthTable ==
  \A p \in Calls :
    LET alg == args[p].Algorithm
    IN  /\ ResultType(alg) = AlgorithmTable(alg).digest
        /\ hash_seed_type(alg) = AlgorithmTable(alg).seed
        /\ hash_seed_type(alg) = 8 * TypeWidth(RegisteredSeedType(alg))
        /\ ResultType(alg) = 8 * TypeWidth(RegisteredReturnType(alg))

\* witness of C11: a seeded call of a 128-bit algorithm with a 32-bit seed
\* has read a seed and hashed a row
C11_Witness ==
  \E p \in Calls :
    /\ args[p].Algorithm = "MURMURHASH3_X64_128" /\ args[p].seeded
    /\ EventsOf(p, {"hash"}) # {}


\* the events of call p about logical row i
RowEvents(p, i, ops) == {k \in EventsOf(p, ops) : trace[p][k].row = i}

\* C12 - Empty value is not null: when a call on a VARCHAR / BLOB chunk has
\* returned, every valid row of length zero (with a valid seed in a seeded
\* call) is a valid row of the output whose digest is the primitive applied
\* to the empty byte sequence, and no exception was raised.
C12_EmptyValueNotNull ==
  \A p \in Calls :
    (Returned(p) /\ args[p].type_id \in VarlenTypes) =>
      \A i \in Rows(args[p]) :
        (RowHashable(args[p], i) /\ LogicalBytes(args[p], i) = <<>>) =>
          /\ frame[p].exception = "none"
          /\ OutputRow(result[p], i).valid
          /\ OutputRow(result[p], i).digest =
               IF args[p].seeded
                 THEN HashWithSeed(args[p].Algorithm, <<>>, LogicalValue(args[p].seed_vector, i))
                 ELSE HashNoSeed(args[p].Algorithm, <<>>)

\* C13 - Output shape: the step that makes a call return leaves a result
\* with as many rows as the input, constant when the row count is 0 or 1
\* and flat when it is 2 or more, and changes neither the data nor the
\* validity mask of the result (so row 0 of a collapsed result is row 0 of
\* the flat one).
C13_OutputShape ==
  [][\A p \in Calls :
       (frame[p].pc # "done" /\ frame'[p].pc = "done") =>
         /\ result'[p].vector_type =
              IF args[p].row_count <= 1 THEN "CONSTANT_VECTOR" ELSE "FLAT_VECTOR"
         /\ Cardinality(DOMAIN [i \in Rows(args'[p]) |-> OutputRow(result'[p], i)])
              = args[p].row_count
         /\ result'[p].data = result[p].data
         /\ result'[p].validity = result[p].validity]_vars

\* witness of C13: a one-row call returned a constant vector holding the
\* digest of its row
C13_Witness ==
  \E p \in Calls :
    /\ Finished(p) /\ args[p].row_count = 1
    /\ result[p].vector_type = "CONSTANT_VECTOR"
    /\ RowEvents(p, 0, {"store"}) # {}
    /\ OutputRow(result[p], 0).valid

\* C14 - No work on invalid rows: for every row the loop has passed whose
\* input is null, or whose seed is null in a seeded call, the dispatcher has
\* marked the output row invalid and has neither read the slot of the row,
\* nor its seed, nor called a primitive, nor written the digest slot.
C14_NoWorkOnInvalidRows ==
  \A p \in Calls :
    (frame[p].pc \in {"switch", "done"}) =>
      \A i \in 0 .. (frame[p].i - 1) :
        ~RowHashable(args[p], i) =>
          /\ RowEvents(p, i, {"SetInvalid"}) # {}
          /\ RowEvents(p, i, {"read", "hash", "store"}) = {}
          /\ ~ResultRowIsValid(result[p], i)
          /\ result[p].data[i].fn = "stale"

\* C18 - Validity write-through: at every point of a call, row i of the
\* result vector is invalid exactly when the call has executed SetInvalid(i),
\* also when the mask of the result vector had no buffer on entry.
C18_ValidityWriteThrough ==
  \A p \in Calls :
    \A i \in Slots :
      ~ResultRowIsValid(result[p], i) <=> RowEvents(p, i, {"SetInvalid"}) # {}


(***************************************************************************)
(* The calls of every type id, for the byte views of the switch.           *)
(***************************************************************************)
InitTypes == InitOver({1}, {"XXH64"}, LogicalTypeId)

SpecTypes == InitTypes /\ [][Next]_vars

\* the fixed-width type ids of the same declared width as type_id
SameWidthTypes(type_id) ==
  {t \in FixedTypes : TypeWidth(t) = TypeWidth(type_id)}

\* C15 - Fixed-width byte views: in a call of either dispatcher on a
\* fixed-width type, every byte view handed to the hash primitive has the
\* declared width of the type; and the call, when it has returned, made the
\* same primitive calls and left the same result as the call on the same
\* buffers under any other fixed-width type of that width (DATE as INTEGER,
\* TIME as BIGINT, signed as unsigned).
C15_FixedWidthViews ==
  \A p \in Calls :
    args[p].type_id \in FixedTypes =>
      /\ \A k \in EventsOf(p, {"hash"}) :
           Len(trace[p][k].bytes) = TypeWidth(args[p].type_id)
      /\ Returned(p) =>
           \A t \in SameWidthTypes(args[p].type_id) :
             LET b == [args[p] EXCEPT !.type_id = t]
             IN  /\ \A r \in ResultVectors :
                      RunCall(EntryState(b, r)).trace = trace[p]
                 /\ \E r \in ResultVectors :
                      RunCall(EntryState(b, r)).result = result[p]

C15_Witness ==
  \E p \in Calls :
    /\ args[p].type_id = "DATE"
    /\ args[p].seeded
    /\ Finished(p)
    /\ \E k \in EventsOf(p, {"hash"}) : Len(trace[p][k].bytes) = 4


\* the loop body run on row i out of turn
RowStep(c, i) == StepOf([c EXCEPT !.frame.i = i])

\* the order of two loop bodies does not show in the result
RowStepsCommute(c) ==
  \A i, j \in Rows(c.args) :
    LET ij == RowStep(RowStep(c, i), j)
        ji == RowStep(RowStep(c, j), i)
    IN  /\ ij.result = ji.result
        /\ ij.frame.result_validity = ji.frame.result_validity

\* the events of the step from the current state to the next
NewEvents(p) ==
  {trace'[p][k] : k \in (Len(trace[p]) + 1) .. Len(trace'[p])}

\* what the step reads and writes belongs to row i: the slots of logical row
\* i of the input and of the seed, and slot i of the result
TouchesOnlyRow(p, i) ==
  \A e \in NewEvents(p) :
    /\ e.row = i
    /\ e.vec = "input" => e.at = SlotOf(args[p].input_vector, i)
    /\ e.vec = "seed" => e.at = SlotOf(args[p].seed_vector, i)
    /\ e.vec = "result" => e.at = i

\* the step leaves every slot of the result but slot i as it was
WritesOnlySlot(p, i) ==
  \A k \in Slots \ {i} :
    /\ result'[p].data[k] = result[p].data[k]
    /\ ResultRowIsValid(result'[p], k) = ResultRowIsValid(result[p], k)

\* C16 - Row independence: every step of the loop of a call, on row i, reads
\* only logical row i of the input and of the seed, writes only slot i of
\* the result, leaves the chunk as it was, and commutes with the step of
\* every other row.
C16_RowIndependence ==
  [][\A p \in Calls :
       (frame[p].pc = "switch" /\ frame'[p].pc = "switch" /\ frame'[p].i = frame[p].i + 1) =>
         /\ TouchesOnlyRow(p, frame[p].i)
         /\ WritesOnlySlot(p, frame[p].i)
         /\ args'[p] = args[p]
         /\ RowStepsCommute(CallState(p))]_vars

\* the same without the reads: what holds of the loop as it is
C16_WritesAndOrder ==
  [][\A p \in Calls :
       (frame[p].pc = "switch" /\ frame'[p].pc = "switch" /\ frame'[p].i = frame[p].i + 1) =>
         /\ \A e \in NewEvents(p) : e.row = frame[p].i /\ (e.vec = "result" => e.at = frame[p].i)
         /\ WritesOnlySlot(p, frame[p].i)
         /\ args'[p] = args[p]
         /\ RowStepsCommute(CallState(p))]_vars


(***************************************************************************)
(* Two calls at once, on chunks and result vectors of their own, their     *)
(* steps interleaved.                                                      *)
(***************************************************************************)
IsolationCalls == {1, 2}

\* flat input columns over one data pattern, row 0 null or not
IsolationInputs ==
  {v \in InputVectors :
     /\ v.vector_type = "FLAT_VECTOR"
     /\ v.data = [k \in Slots |-> k % 2]
     /\ \A k \in Slots : k # 0 => v.validity[k]}

IsolationSeed ==
  [vector_type |-> "FLAT_VECTOR", sel |-> IncrementalSelectionVector,
   data |-> [k \in Slots |-> IF k % 2 = 0 THEN 42 ELSE 0], validity |-> AllValid]

IsolationArgs ==
  [seeded : {FALSE}, Algorithm : {"XXH32"}, type_id : SpecTypeIds,
   row_count : 0 .. MaxRows, input_vector : IsolationInputs, seed_vector : {NoVector}]
  \cup
  [seeded : {TRUE}, Algorithm : {"XXH32"}, type_id : SpecTypeIds,
   row_count : 0 .. MaxRows, input_vector : IsolationInputs, seed_vector : {IsolationSeed}]

InitIsolation ==
  /\ args \in [IsolationCalls -> IsolationArgs]
  /\ result \in [IsolationCalls -> ResultVectors]
  /\ frame = [p \in IsolationCalls |-> FrameAtEntry]
  /\ trace = [p \in IsolationCalls |-> <<>>]

SpecIsolation == InitIsolation /\ [][Next]_vars

\* the state of call p after the step
CallStateNext(p) ==
  [args |-> args'[p], result |-> result'[p], frame |-> frame'[p], trace |-> trace'[p]]

\* C17 - Batch isolation: a step of two interleaved calls is the step one of
\* them would take alone, computed from its own state, and leaves the other
\* call as it was, the step that throws included; so a call that has
\* returned or thrown is in the state in which it ends when run alone.
C17_BatchIsolation ==
  [][/\ \E p \in Calls :
          /\ CallStateNext(p) = StepOf(CallState(p))
          /\ \A q \in Calls \ {p} : CallStateNext(q) = CallState(q)
     /\ \A p \in Calls :
          CallStateNext(p).frame.pc \in {"done", "thrown"} =>
            \E r \in ResultVectors :
              CallStateNext(p) = RunCall(EntryState(args[p], r))]_vars

C17_Witness ==
  \E p, q \in Calls :
    /\ p # q
    /\ frame[p].pc = "thrown"
    /\ trace[p] = <<>>
    /\ Finished(q)
    /\ args[q].row_count >= 2
    /\ EventsOf(q, {"store"}) # {}
    /\ EventsOf(q, {"SetInvalid"}) # {}

====
